---- MODULE Spec2Model ----
(***************************************************************************)
(* A model of the sundial download pipeline (src/pipeline/downloader.py,   *)
(* src/pipeline/utils.py) and of the dataset layer's array handling        *)
(* (src/dataloaders.py).                                                   *)
(*                                                                         *)
(* Spec      the Downloader: start(), the watcher, the reporter, the image *)
(*           generator and the image consumers, with their three queues,   *)
(*           two store locks and the request semaphore.                    *)
(* SpecArr   zarr_reshape (annotation array, center-pad) and the center-   *)
(*           crop of the dataset, applied to arrays of bounded extents.    *)
(* SpecData  ChipsDataModule (setup, the loader factories) and             *)
(*           ChipsDataset.__getitem__ on one stored square.                *)
(* SpecUtil  parse_meta_data, generate_coords_name, estimate_download_size,*)
(*           the axes zarr_reshape builds and the generator's reprojection *)
(*           code, on bounded arguments.                                   *)
(***************************************************************************)
EXTENDS Integers, Sequences, FiniteSets, TLC

-----------------------------------------------------------------------------
(* Bounds of the model.                                                    *)

\* number of records of the metadata catalog (self._meta_size)
MetaSize == 2
\* number of consumer processes (self._num_workers)
NumWorkers == 2
\* configured number of fetch attempts (self._retries)
Retries == 2
\* size of the request semaphore; settings.GEE_REQUEST_LIMIT, scaled down
GEE_REQUEST_LIMIT == 1

Squares == 1..MetaSize
Workers == 1..NumWorkers
\* the None sentinel of the image queue and of the result queue
None == 0

FileTypes == {"GEO_TIFF", "ZARR", "NPY", "NUMPY_NDARRAY"}
Levels == {"DEBUG", "INFO", "WARNING", "ERROR", "CRITICAL"}
\* the object report_queue.put("INFO", "...") enqueues: the bare string "INFO"
BareString == "str"
\* the None sentinel of the report queue
NoneMsg == "None"

-----------------------------------------------------------------------------
(* Class-level limits of the Downloader and the arities start() relies on. *)

SizeLimit == 65
BandLimit == 1024
PixelLimit == 32000
\* number of values parse_meta_data returns
ParseMetaDataReturns == 8
\* number of targets start() unpacks them into
StartUnpackTargets == 7
\* number of parameters of lt_image_generator that have no default
LtImageGeneratorRequired == 6
\* number of arguments start() passes to it
StartCallArgs == 4

-----------------------------------------------------------------------------
VARIABLES
    \* configuration (constructor arguments), fixed for a run
    fileType, overwrite, ignoreSizeLimit,
    \* what the imagery service would report for the representative request:
    \* [size (hundredths of a MB), pixels, bands]
    est,
    \* the invoking process: start() and _watcher()
    mainPc, idx, jdx,
    \* the three manager queues
    imageQueue, resultQueue, reportQueue,
    \* Semaphore(GEE_REQUEST_LIMIT) and the two manager locks (0 = free)
    permits, chipLock, annLock,
    \* _reporter
    repPc, logged,
    \* _image_generator: loop index, last bound value of square_name (0 = unbound)
    genPc, genIdx, genName,
    \* _image_consumer, per worker
    cPc, cTask, cAttempts, cArr, cDecoded, cAnno, cAble,
    \* square names present under the chip path / store and the annotation one
    chipData, annoData,
    \* history: what was there before the run, what happened during it
    existing0, tasksEnq, anyFailure, attemptsMade, exhausted, maxRetryReported,
    writeAttempted,
    \* history: how many times the consumers pushed each square's name to the
    \* result queue
    resultPushes,
    \* the array development (SpecArr)
    raw, pixelEdge, chipSize, stored, item, arrPc,
    \* zarr_reshape's annotation array (SpecArr): the raw array's overlap field,
    \* the record's stratum index in the strata map, xarr_ann before the padding
    \* and as returned
    overlap, stratumIdx, ann, storedAnn,
    \* the dataset layer (SpecData): the data module's options, the sample
    \* record's year, the square's entries in the chip and annotation stores,
    \* the datasets setup() has built, the last loader and the last item
    dmCfg, sampleYear, dsChip, dsAnno, datasets, loader, dsItem,
    \* the utility functions (SpecUtil): the function called, its arguments
    \* and what it returned
    uFn, uArgs, uRet

pipeVars == <<fileType, overwrite, ignoreSizeLimit, est, mainPc, idx, jdx,
              imageQueue, resultQueue, reportQueue, permits, chipLock, annLock,
              repPc, logged, genPc, genIdx, genName,
              cPc, cTask, cAttempts, cArr, cDecoded, cAnno, cAble,
              chipData, annoData, existing0, tasksEnq, anyFailure, attemptsMade,
              exhausted, maxRetryReported, writeAttempted, resultPushes>>
arrVars == <<raw, pixelEdge, chipSize, stored, item, arrPc,
             overlap, stratumIdx, ann, storedAnn>>
dsVars == <<dmCfg, sampleYear, dsChip, dsAnno, datasets, loader, dsItem>>
utilVars == <<uFn, uArgs, uRet>>
\* everything but the pipeline
libVars == <<arrVars, dsVars, utilVars>>
vars == <<pipeVars, libVars>>

cfgVars == <<fileType, overwrite, ignoreSizeLimit, est, existing0>>
syncVars == <<permits, chipLock, annLock>>
repVars == <<repPc, logged>>
genVars == <<genPc, genIdx, genName>>
consVars == <<cPc, cTask, cAttempts, cArr, cDecoded, cAnno, cAble>>
dataVars == <<chipData, annoData>>
histVars == <<tasksEnq, anyFailure, attemptsMade, exhausted, maxRetryReported,
              writeAttempted, resultPushes>>

-----------------------------------------------------------------------------
(* Helpers.                                                                *)

\* queue.put of several objects in program order
Put(q, objs) == q \o objs

Inc(f, k) == [f EXCEPT ![k] = @ + 1]

-----------------------------------------------------------------------------
(* Downloader.start                                                        *)

\* PreflightRuns with the test of the bypass inverted
PreflightRunsInverted(ignore) == ignore

\* line 112: the pre-flight block runs unless the bypass is set
PreflightRuns(ignore) == ~ignore

\* lines 114-134: TRUE when the pre-flight block raises for the estimate e.
\* The unpacking of parse_meta_data's result and the call of the image
\* generator come before the three limits.
PreflightRaises(e) ==
    \/ ParseMetaDataReturns # StartUnpackTargets
    \/ StartCallArgs < LtImageGeneratorRequired
    \/ e.size > SizeLimit * 100
    \/ e.pixels > PixelLimit * PixelLimit
    \/ e.bands > BandLimit

\* the pre-flight estimate is within all three limits
WithinLimits(e) ==
    /\ e.size <= SizeLimit * 100
    /\ e.pixels <= PixelLimit * PixelLimit
    /\ e.bands <= BandLimit

EstChoices ==
    [size : {SizeLimit * 100, SizeLimit * 100 + 1},
     pixels : {PixelLimit * PixelLimit, PixelLimit * PixelLimit + 1},
     bands : {BandLimit, BandLimit + 1}]

\* the estimate is not asked for when the bypass is set
NoEst == [size |-> 0, pixels |-> 0, bands |-> 0]

\* start() raising: nothing of _watcher has run
StartRaise ==
    /\ mainPc = "init"
    /\ PreflightRuns(ignoreSizeLimit) /\ PreflightRaises(est)
    /\ mainPc' = "raised"
    /\ UNCHANGED <<idx, jdx, imageQueue, resultQueue, reportQueue>>
    /\ UNCHANGED <<cfgVars, syncVars, repVars, genVars, consVars, dataVars,
                   histVars, libVars>>

\* _watcher, lines 138-183: queues, locks, semaphore, processes started
StartWatcher ==
    /\ mainPc = "init"
    /\ ~(PreflightRuns(ignoreSizeLimit) /\ PreflightRaises(est))
    /\ mainPc' = "watch"
    /\ repPc' = "run"
    /\ genPc' = "loop"
    /\ cPc' = [w \in Workers |-> "get"]
    /\ reportQueue' = Put(reportQueue, <<"INFO">>)
    /\ idx' = 0 /\ jdx' = 0
    /\ UNCHANGED <<imageQueue, resultQueue, logged, genIdx, genName,
                   cTask, cAttempts, cArr, cDecoded, cAnno, cAble>>
    /\ UNCHANGED <<cfgVars, syncVars, dataVars, histVars, libVars>>

\* line 184: the watcher's loop condition
WatcherLoops(i) == i < MetaSize

\* lines 184-194: one round of the watcher's loop
WatcherGet ==
    /\ mainPc = "watch"
    /\ WatcherLoops(idx)
    /\ resultQueue # <<>>
    /\ LET result == Head(resultQueue) IN
       /\ resultQueue' = Tail(resultQueue)
       /\ IF result # None
             THEN idx' = idx + 1 /\ jdx' = jdx
             ELSE jdx' = jdx + 1 /\ idx' = idx
       /\ reportQueue' = Put(reportQueue, <<"INFO">>)
    /\ UNCHANGED <<mainPc, imageQueue>>
    /\ UNCHANGED <<cfgVars, syncVars, repVars, genVars, consVars, dataVars,
                   histVars, libVars>>

\* lines 195-199: the loop is left; the reporter's sentinel is sent
WatcherFinish ==
    /\ mainPc = "watch"
    /\ ~WatcherLoops(idx)
    /\ reportQueue' = Put(reportQueue, <<"INFO", "INFO", NoneMsg>>)
    /\ mainPc' = "join"
    /\ UNCHANGED <<idx, jdx, imageQueue, resultQueue>>
    /\ UNCHANGED <<cfgVars, syncVars, repVars, genVars, consVars, dataVars,
                   histVars, libVars>>

\* a process has ended, normally or by an exception that escaped it
Ended(pc) == pc \in {"done", "crashed"}

\* line 200: join of the reporter, the generator and every consumer
WatcherJoin ==
    /\ mainPc = "join"
    /\ Ended(repPc) /\ Ended(genPc)
    /\ \A w \in Workers : Ended(cPc[w])
    /\ mainPc' = "done"
    /\ UNCHANGED <<idx, jdx, imageQueue, resultQueue, reportQueue>>
    /\ UNCHANGED <<cfgVars, syncVars, repVars, genVars, consVars, dataVars,
                   histVars, libVars>>

-----------------------------------------------------------------------------
(* Downloader._reporter                                                    *)

\* lines 204-218: one message is taken; a pair is dispatched at its level,
\* the sentinel ends the loop, anything else fails at "level, message = report"
ReporterGet ==
    /\ repPc = "run"
    /\ reportQueue # <<>>
    /\ LET report == Head(reportQueue) IN
       /\ reportQueue' = Tail(reportQueue)
       /\ IF report = NoneMsg
             THEN repPc' = "done" /\ logged' = logged
             ELSE IF report \in Levels
                     THEN repPc' = repPc /\ logged' = Inc(logged, report)
                     ELSE repPc' = "crashed" /\ logged' = logged
    /\ UNCHANGED <<mainPc, idx, jdx, imageQueue, resultQueue>>
    /\ UNCHANGED <<cfgVars, syncVars, genVars, consVars, dataVars,
                   histVars, libVars>>

-----------------------------------------------------------------------------
(* Downloader._image_generator                                             *)
(* The reprojection selector is taken as absent (no "Reprojecting" report).*)

\* the record visited in this round of the loop (catalog index genIdx)
Rec == genIdx + 1

\* line 250 and lines 261-266: the output of square r is found at both paths
FoundBoth(r) == r \in chipData /\ r \in annoData

\* Skips with the output found at one of the two paths being enough
SkipsFoundEither(r) == ~overwrite /\ (r \in chipData \/ r \in annoData)

\* lines 250 and 258-269: the record is skipped
Skips(r) == ~overwrite /\ FoundBoth(r)

\* lines 251-254 against 267-269: what the skipping branch puts on the
\* report queue and on the result queue
SkipReport(ft) == IF ft = "ZARR" THEN <<"INFO">> ELSE <<BareString>>
SkipResult(ft, r) == IF ft = "ZARR" THEN <<>> ELSE <<r>>

\* lines 271-279: the probe ran and did not find the square
ProbeReport == IF fileType = "ZARR" /\ ~overwrite THEN <<"INFO">> ELSE <<>>

\* lines 325-328 with parse_meta_data raising: square_name keeps the value of
\* the last record parsed; unbound, the handler itself raises
GenParseFail ==
    /\ genPc = "loop" /\ genIdx < MetaSize
    /\ IF genName = 0
          THEN /\ genPc' = "crashed"
               /\ UNCHANGED <<genIdx, reportQueue, resultQueue>>
          ELSE /\ genPc' = genPc
               /\ genIdx' = genIdx + 1
               /\ reportQueue' = Put(reportQueue, <<"CRITICAL">>)
               /\ resultQueue' = Put(resultQueue, <<genName>>)
    /\ anyFailure' = TRUE
    /\ UNCHANGED <<genName, mainPc, idx, jdx, imageQueue, tasksEnq, attemptsMade,
                   exhausted, maxRetryReported, writeAttempted, resultPushes>>
    /\ UNCHANGED <<cfgVars, syncVars, repVars, consVars, dataVars, libVars>>

\* lines 250-254 and 258-269: output found, record skipped
GenSkip ==
    /\ genPc = "loop" /\ genIdx < MetaSize
    /\ Skips(Rec)
    /\ genName' = Rec
    /\ genIdx' = genIdx + 1
    /\ reportQueue' = Put(reportQueue, SkipReport(fileType))
    /\ resultQueue' = Put(resultQueue, SkipResult(fileType, Rec))
    /\ UNCHANGED <<genPc, mainPc, idx, jdx, imageQueue>>
    /\ UNCHANGED <<cfgVars, syncVars, repVars, consVars, dataVars, histVars,
                   libVars>>

\* lines 281-286: the probe of the stores raises something else than not-found
GenProbeFail ==
    /\ genPc = "loop" /\ genIdx < MetaSize
    /\ fileType = "ZARR" /\ ~overwrite
    /\ genName' = Rec
    /\ genIdx' = genIdx + 1
    /\ reportQueue' = Put(reportQueue, <<"CRITICAL">>)
    /\ resultQueue' = Put(resultQueue, <<Rec>>)
    /\ anyFailure' = TRUE
    /\ UNCHANGED <<genPc, mainPc, idx, jdx, imageQueue, tasksEnq, attemptsMade,
                   exhausted, maxRetryReported, writeAttempted, resultPushes>>
    /\ UNCHANGED <<cfgVars, syncVars, repVars, consVars, dataVars, libVars>>

\* lines 289-320 raising (image construction, reprojection, encoding), then
\* lines 325-328
GenBuildFail ==
    /\ genPc = "loop" /\ genIdx < MetaSize
    /\ ~Skips(Rec)
    /\ genName' = Rec
    /\ genIdx' = genIdx + 1
    /\ reportQueue' = Put(reportQueue,
                          ProbeReport \o <<"INFO", "INFO", "CRITICAL">>)
    /\ resultQueue' = Put(resultQueue, <<Rec>>)
    /\ anyFailure' = TRUE
    /\ UNCHANGED <<genPc, mainPc, idx, jdx, imageQueue, tasksEnq, attemptsMade,
                   exhausted, maxRetryReported, writeAttempted, resultPushes>>
    /\ UNCHANGED <<cfgVars, syncVars, repVars, consVars, dataVars, libVars>>

\* lines 289-324: the image task of the record is enqueued
GenEnqueue ==
    /\ genPc = "loop" /\ genIdx < MetaSize
    /\ ~Skips(Rec)
    /\ genName' = Rec
    /\ genIdx' = genIdx + 1
    /\ reportQueue' = Put(reportQueue, ProbeReport \o <<"INFO", "INFO">>)
    /\ imageQueue' = Put(imageQueue, <<Rec>>)
    /\ tasksEnq' = tasksEnq \cup {Rec}
    /\ UNCHANGED <<genPc, mainPc, idx, jdx, resultQueue, anyFailure,
                   attemptsMade, exhausted, maxRetryReported, writeAttempted,
                   resultPushes>>
    /\ UNCHANGED <<cfgVars, syncVars, repVars, consVars, dataVars, libVars>>

\* Sentinels with one sentinel too few
SentinelsOneShort(n) == [i \in 1..(n - 1) |-> None]

\* line 329: the objects put for n workers
Sentinels(n) == [i \in 1..n |-> None]

\* line 329: one sentinel per consumer
GenSentinels ==
    /\ genPc = "loop" /\ genIdx = MetaSize
    /\ imageQueue' = Put(imageQueue, Sentinels(NumWorkers))
    /\ genPc' = "done"
    /\ UNCHANGED <<genIdx, genName, mainPc, idx, jdx, resultQueue, reportQueue>>
    /\ UNCHANGED <<cfgVars, syncVars, repVars, consVars, dataVars, histVars,
                   libVars>>

-----------------------------------------------------------------------------
(* Downloader._image_consumer                                              *)

\* RetryLoopContinues with an off-by-one loop bound
RetryLoopOneMore(attempts) == attempts <= Retries

\* line 348: the retry loop goes on
RetryLoopContinues(attempts) == attempts < Retries

\* CanAcquire with a semaphore that lets one request too many through
CanAcquireAtZero(p) == p >= 0

\* line 353: the semaphore can be acquired
CanAcquire(p) == p > 0

\* lines 353-358: the semaphore's value when the with block is left
Release(p) == p + 1

\* lines 355-357: the attempt yields the pixel array. decoded: the payload's
\* expression was already replaced by its decoded form in an earlier attempt,
\* and decoding a decoded expression raises; able: the service answers.
AttemptYields(decoded, able) == ~decoded /\ able

\* line 363: the attempt was the last one
LastAttempt(attempts) == attempts = Retries

\* line 372: there is an array to write
ShouldSave(arr) == arr

\* LockFree with a lock that is never waited for
LockNeverHeld(l) == TRUE

\* lines 396 and 402: the lock is free
LockFree(l) == l = 0

\* line 408: the partial file is removed for this file type
Unlinks(ft) == ft = "NPY"

\* line 342: a task or a sentinel is taken from the image queue
ConsGet(w) ==
    /\ cPc[w] = "get"
    /\ imageQueue # <<>>
    /\ LET task == Head(imageQueue) IN
       /\ imageQueue' = Tail(imageQueue)
       /\ IF task = None
             THEN /\ resultQueue' = Put(resultQueue, <<None>>)
                  /\ cPc' = [cPc EXCEPT ![w] = "done"]
                  /\ UNCHANGED <<cTask, cAttempts, cArr, cDecoded, cAnno, cAble>>
             ELSE /\ resultQueue' = resultQueue
                  /\ cPc' = [cPc EXCEPT ![w] = "attempt"]
                  /\ cTask' = [cTask EXCEPT ![w] = task]
                  /\ cAttempts' = [cAttempts EXCEPT ![w] = 0]
                  /\ cArr' = [cArr EXCEPT ![w] = FALSE]
                  /\ cDecoded' = [cDecoded EXCEPT ![w] = FALSE]
                  /\ cAnno' = [cAnno EXCEPT ![w] = FALSE]
                  /\ cAble' = [cAble EXCEPT ![w] = FALSE]
    /\ UNCHANGED <<mainPc, idx, jdx, reportQueue>>
    /\ UNCHANGED <<cfgVars, syncVars, repVars, genVars, dataVars, histVars,
                   libVars>>

\* lines 348-352: the loop condition; a new attempt is counted and reported.
\* The loop is only re-entered without an array (a success breaks out of it),
\* so leaving it here is the exhaustion of the attempts.
ConsAttempt(w) ==
    /\ cPc[w] = "attempt"
    /\ IF RetryLoopContinues(cAttempts[w])
          THEN /\ cAttempts' = [cAttempts EXCEPT ![w] = @ + 1]
               /\ attemptsMade' = Inc(attemptsMade, cTask[w])
               /\ reportQueue' = Put(reportQueue, <<"INFO">>)
               /\ cPc' = [cPc EXCEPT ![w] = "acquire"]
               /\ exhausted' = exhausted
          ELSE /\ cPc' = [cPc EXCEPT ![w] = "save"]
               /\ exhausted' = exhausted \cup {cTask[w]}
               /\ UNCHANGED <<cAttempts, attemptsMade, reportQueue>>
    /\ UNCHANGED <<cTask, cArr, cDecoded, cAnno, cAble>>
    /\ UNCHANGED <<mainPc, idx, jdx, imageQueue, resultQueue, tasksEnq, anyFailure,
                   maxRetryReported, writeAttempted, resultPushes>>
    /\ UNCHANGED <<cfgVars, syncVars, repVars, genVars, dataVars, libVars>>

\* line 353: the with block is entered
ConsAcquire(w) ==
    /\ cPc[w] = "acquire"
    /\ CanAcquire(permits)
    /\ permits' = permits - 1
    /\ cPc' = [cPc EXCEPT ![w] = "fetch"]
    /\ UNCHANGED <<cTask, cAttempts, cArr, cDecoded, cAnno, cAble>>
    /\ UNCHANGED <<chipLock, annLock>>
    /\ UNCHANGED <<mainPc, idx, jdx, imageQueue, resultQueue, reportQueue>>
    /\ UNCHANGED <<cfgVars, repVars, genVars, dataVars, histVars, libVars>>

\* lines 355-369: decode and computePixels, the with block left; on an
\* exception the handler's reports and, after the last attempt, the result
ConsFetch(w) ==
    /\ cPc[w] = "fetch"
    /\ \E able \in BOOLEAN :
        /\ cAble' = [cAble EXCEPT ![w] = able]
        /\ permits' = Release(permits)
        /\ cDecoded' = [cDecoded EXCEPT ![w] = TRUE]
        /\ IF AttemptYields(cDecoded[w], able)
              THEN /\ cArr' = [cArr EXCEPT ![w] = TRUE]
                   /\ cPc' = [cPc EXCEPT ![w] = "save"]
                   /\ UNCHANGED <<reportQueue, resultQueue, anyFailure,
                                  maxRetryReported, resultPushes>>
              ELSE /\ cArr' = cArr
                   /\ cPc' = [cPc EXCEPT ![w] = "attempt"]
                   /\ anyFailure' = TRUE
                   /\ IF LastAttempt(cAttempts[w])
                         THEN /\ reportQueue' =
                                   Put(reportQueue, <<"WARNING", "ERROR">>)
                              /\ resultQueue' = Put(resultQueue, <<cTask[w]>>)
                              /\ resultPushes' = Inc(resultPushes, cTask[w])
                              /\ maxRetryReported' =
                                   maxRetryReported \cup {cTask[w]}
                         ELSE /\ reportQueue' =
                                   Put(reportQueue, <<"WARNING", "INFO">>)
                              /\ UNCHANGED <<resultQueue, maxRetryReported,
                                             resultPushes>>
    /\ UNCHANGED <<cTask, cAttempts, cAnno>>
    /\ UNCHANGED <<chipLock, annLock>>
    /\ UNCHANGED <<mainPc, idx, jdx, imageQueue, tasksEnq, attemptsMade,
                   exhausted, writeAttempted>>
    /\ UNCHANGED <<cfgVars, repVars, genVars, dataVars, libVars>>

\* lines 372 and 414: no array, nothing is written
ConsNoSave(w) ==
    /\ cPc[w] = "save"
    /\ ~ShouldSave(cArr[w])
    /\ resultQueue' = Put(resultQueue, <<cTask[w]>>)
    /\ resultPushes' = Inc(resultPushes, cTask[w])
    /\ cPc' = [cPc EXCEPT ![w] = "get"]
    /\ UNCHANGED <<cTask, cAttempts, cArr, cDecoded, cAnno, cAble>>
    /\ UNCHANGED <<mainPc, idx, jdx, imageQueue, reportQueue, tasksEnq, anyFailure,
                   attemptsMade, exhausted, maxRetryReported, writeAttempted>>
    /\ UNCHANGED <<cfgVars, syncVars, repVars, genVars, dataVars, libVars>>

\* lines 373-382 and 405-414, the file formats: write_bytes or np.save.
\* res: "ok", or the write raised and left a file at the path ("partial") or
\* left the path as it was ("none"); unlinked: the removal succeeded.
ConsSaveFile(w) ==
    /\ cPc[w] = "save"
    /\ ShouldSave(cArr[w])
    /\ fileType # "ZARR"
    /\ \E res \in {"ok", "partial", "none"}, unlinked \in BOOLEAN :
        LET t == cTask[w]
            written == IF res = "none" THEN chipData ELSE chipData \cup {t}
        IN  /\ res = "ok" => unlinked
            /\ ~Unlinks(fileType) => unlinked
            /\ IF res = "ok"
                  THEN /\ chipData' = written
                       /\ reportQueue' = Put(reportQueue, <<"INFO">>)
                       /\ anyFailure' = anyFailure
                  ELSE /\ anyFailure' = TRUE
                       /\ IF Unlinks(fileType)
                             THEN IF unlinked
                                     THEN /\ chipData' = written \ {t}
                                          /\ reportQueue' =
                                               Put(reportQueue,
                                                   <<"INFO", "ERROR">>)
                                     ELSE /\ chipData' = written
                                          /\ reportQueue' =
                                               Put(reportQueue,
                                                   <<"INFO", "ERROR", "ERROR">>)
                             ELSE /\ chipData' = written
                                  /\ reportQueue' =
                                       Put(reportQueue, <<"INFO", "ERROR">>)
            /\ writeAttempted' = writeAttempted \cup {t}
            /\ resultQueue' = Put(resultQueue, <<t>>)
            /\ resultPushes' = Inc(resultPushes, t)
    /\ cPc' = [cPc EXCEPT ![w] = "get"]
    /\ UNCHANGED <<cTask, cAttempts, cArr, cDecoded, cAnno, cAble, annoData>>
    /\ UNCHANGED <<mainPc, idx, jdx, imageQueue, tasksEnq, attemptsMade,
                   exhausted, maxRetryReported>>
    /\ UNCHANGED <<cfgVars, syncVars, repVars, genVars, libVars>>

\* lines 373-395 and 405-414, the chunked format: zarr_reshape. res: it
\* raised, or returned a chip alone, or a chip and an annotation array
ConsReshape(w) ==
    /\ cPc[w] = "save"
    /\ ShouldSave(cArr[w])
    /\ fileType = "ZARR"
    /\ \E res \in {"raise", "chip", "chipAnno"} :
        IF res = "raise"
           THEN /\ reportQueue' = Put(reportQueue, <<"INFO", "INFO", "ERROR">>)
                /\ resultQueue' = Put(resultQueue, <<cTask[w]>>)
                /\ resultPushes' = Inc(resultPushes, cTask[w])
                /\ anyFailure' = TRUE
                /\ cPc' = [cPc EXCEPT ![w] = "get"]
                /\ cAnno' = cAnno
           ELSE /\ reportQueue' = Put(reportQueue, <<"INFO", "INFO", "INFO">>)
                /\ cAnno' = [cAnno EXCEPT ![w] = (res = "chipAnno")]
                /\ cPc' = [cPc EXCEPT ![w] = "chipLock"]
                /\ UNCHANGED <<resultQueue, anyFailure, resultPushes>>
    /\ UNCHANGED <<cTask, cAttempts, cArr, cDecoded, cAble>>
    /\ UNCHANGED <<mainPc, idx, jdx, imageQueue, tasksEnq, attemptsMade,
                   exhausted, maxRetryReported, writeAttempted>>
    /\ UNCHANGED <<cfgVars, syncVars, repVars, genVars, dataVars, libVars>>

\* line 396: the chip lock is acquired
ConsChipLock(w) ==
    /\ cPc[w] = "chipLock"
    /\ LockFree(chipLock)
    /\ chipLock' = w
    /\ cPc' = [cPc EXCEPT ![w] = "chipWrite"]
    /\ UNCHANGED <<cTask, cAttempts, cArr, cDecoded, cAnno, cAble>>
    /\ UNCHANGED <<permits, annLock>>
    /\ UNCHANGED <<mainPc, idx, jdx, imageQueue, resultQueue, reportQueue>>
    /\ UNCHANGED <<cfgVars, repVars, genVars, dataVars, histVars, libVars>>

\* AnnoAppendFollows with the annotation append made whatever became of the
\* chip append
AnnoAppendAlways(ok, anno) == anno

\* lines 396-399: the annotation append is reached when the chip append
\* returned (an exception leaves the try block) and xarr_anno is not None
AnnoAppendFollows(ok, anno) == ok /\ anno

\* lines 397-401 and 405-414: the chip append, the lock released. ok: the
\* append succeeded; left: a failed append left an entry of that name
ConsChipWrite(w) ==
    /\ cPc[w] = "chipWrite"
    /\ chipLock' = 0
    /\ \E ok \in BOOLEAN, left \in BOOLEAN :
        LET t == cTask[w] IN
        /\ ok => left
        /\ chipData' = IF left THEN chipData \cup {t} ELSE chipData
        /\ writeAttempted' = writeAttempted \cup {t}
        /\ anyFailure' = (anyFailure \/ ~ok)
        /\ IF AnnoAppendFollows(ok, cAnno[w])
              THEN /\ reportQueue' =
                        Put(reportQueue,
                            (IF ok THEN <<>> ELSE <<"ERROR">>) \o <<"INFO">>)
                   /\ cPc' = [cPc EXCEPT ![w] = "annLock"]
                   /\ UNCHANGED <<resultQueue, resultPushes>>
              ELSE /\ reportQueue' =
                        Put(reportQueue, IF ok THEN <<>> ELSE <<"ERROR">>)
                   /\ resultQueue' = Put(resultQueue, <<t>>)
                   /\ resultPushes' = Inc(resultPushes, t)
                   /\ cPc' = [cPc EXCEPT ![w] = "get"]
    /\ UNCHANGED <<cTask, cAttempts, cArr, cDecoded, cAnno, cAble, annoData>>
    /\ UNCHANGED <<permits, annLock>>
    /\ UNCHANGED <<mainPc, idx, jdx, imageQueue, tasksEnq, attemptsMade,
                   exhausted, maxRetryReported>>
    /\ UNCHANGED <<cfgVars, repVars, genVars, libVars>>

\* line 402: the annotation lock is acquired
ConsAnnLock(w) ==
    /\ cPc[w] = "annLock"
    /\ LockFree(annLock)
    /\ annLock' = w
    /\ cPc' = [cPc EXCEPT ![w] = "annWrite"]
    /\ UNCHANGED <<cTask, cAttempts, cArr, cDecoded, cAnno, cAble>>
    /\ UNCHANGED <<permits, chipLock>>
    /\ UNCHANGED <<mainPc, idx, jdx, imageQueue, resultQueue, reportQueue>>
    /\ UNCHANGED <<cfgVars, repVars, genVars, dataVars, histVars, libVars>>

\* lines 403-414: the annotation append, the lock released
ConsAnnWrite(w) ==
    /\ cPc[w] = "annWrite"
    /\ annLock' = 0
    /\ \E ok \in BOOLEAN, left \in BOOLEAN :
        LET t == cTask[w] IN
        /\ ok => left
        /\ annoData' = IF left THEN annoData \cup {t} ELSE annoData
        /\ IF ok
              THEN UNCHANGED <<reportQueue, anyFailure>>
              ELSE /\ reportQueue' = Put(reportQueue, <<"ERROR">>)
                   /\ anyFailure' = TRUE
        /\ resultQueue' = Put(resultQueue, <<t>>)
        /\ resultPushes' = Inc(resultPushes, t)
    /\ cPc' = [cPc EXCEPT ![w] = "get"]
    /\ UNCHANGED <<cTask, cAttempts, cArr, cDecoded, cAnno, cAble, chipData>>
    /\ UNCHANGED <<permits, chipLock>>
    /\ UNCHANGED <<mainPc, idx, jdx, imageQueue, tasksEnq, attemptsMade,
                   exhausted, maxRetryReported, writeAttempted>>
    /\ UNCHANGED <<cfgVars, repVars, genVars, libVars>>

-----------------------------------------------------------------------------
(* The Downloader as a whole.                                              *)

\* the array development is idle in the pipeline's specification
ArrIdle ==
    /\ raw = <<>> /\ stored = <<>> /\ item = <<>>
    /\ pixelEdge = 0 /\ chipSize = 0
    /\ arrPc = "idle"
    /\ overlap = <<>> /\ stratumIdx = {} /\ ann = <<>> /\ storedAnn = <<>>

\* the dataset layer is idle in the other specifications
DsIdle ==
    /\ dmCfg = <<>> /\ sampleYear = 0 /\ dsChip = <<>> /\ dsAnno = <<>>
    /\ datasets = <<>> /\ loader = <<>> /\ dsItem = <<>>

\* the utility functions are idle in the other specifications
UtilIdle == uFn = "idle" /\ uArgs = <<>> /\ uRet = <<>>

\* Downloader.__init__, lines 82-106, and the state of the output paths
Init ==
    /\ fileType \in FileTypes
    /\ overwrite \in BOOLEAN
    /\ ignoreSizeLimit \in BOOLEAN
    /\ est \in IF ignoreSizeLimit THEN {NoEst} ELSE EstChoices
    /\ chipData \in SUBSET Squares
    /\ annoData \in SUBSET chipData
    /\ existing0 = chipData \cap annoData
    /\ mainPc = "init" /\ idx = 0 /\ jdx = 0
    /\ imageQueue = <<>> /\ resultQueue = <<>> /\ reportQueue = <<>>
    /\ permits = GEE_REQUEST_LIMIT /\ chipLock = 0 /\ annLock = 0
    /\ repPc = "notstarted" /\ logged = [l \in Levels |-> 0]
    /\ genPc = "notstarted" /\ genIdx = 0 /\ genName = 0
    /\ cPc = [w \in Workers |-> "notstarted"]
    /\ cTask = [w \in Workers |-> 0]
    /\ cAttempts = [w \in Workers |-> 0]
    /\ cArr = [w \in Workers |-> FALSE]
    /\ cDecoded = [w \in Workers |-> FALSE]
    /\ cAnno = [w \in Workers |-> FALSE]
    /\ cAble = [w \in Workers |-> FALSE]
    /\ tasksEnq = {} /\ anyFailure = FALSE
    /\ attemptsMade = [r \in Squares |-> 0]
    /\ exhausted = {} /\ maxRetryReported = {} /\ writeAttempted = {}
    /\ resultPushes = [r \in Squares |-> 0]
    /\ ArrIdle /\ DsIdle /\ UtilIdle

\* The reporter has a message to take.
ReporterBusy == repPc = "run" /\ reportQueue # <<>>

\* The other processes only append to reportQueue and read nothing of the
\* reporter but its end (in the join), and ReporterGet touches nothing else, so
\* ReporterGet commutes with every other action.  Next schedules the reporter
\* ahead of the others: of the behaviours that differ only in when the reporter
\* takes its messages, the one where it takes them at once is explored.
Next ==
    \/ ReporterGet
    \/ ~ReporterBusy /\ StartRaise
    \/ ~ReporterBusy /\ StartWatcher
    \/ ~ReporterBusy /\ WatcherGet
    \/ ~ReporterBusy /\ WatcherFinish
    \/ ~ReporterBusy /\ WatcherJoin
    \/ ~ReporterBusy /\ GenParseFail
    \/ ~ReporterBusy /\ GenSkip
    \/ ~ReporterBusy /\ GenProbeFail
    \/ ~ReporterBusy /\ GenBuildFail
    \/ ~ReporterBusy /\ GenEnqueue
    \/ ~ReporterBusy /\ GenSentinels
    \/ ~ReporterBusy /\ \E w \in Workers : ConsGet(w)
    \/ ~ReporterBusy /\ \E w \in Workers : ConsAttempt(w)
    \/ ~ReporterBusy /\ \E w \in Workers : ConsAcquire(w)
    \/ ~ReporterBusy /\ \E w \in Workers : ConsFetch(w)
    \/ ~ReporterBusy /\ \E w \in Workers : ConsNoSave(w)
    \/ ~ReporterBusy /\ \E w \in Workers : ConsSaveFile(w)
    \/ ~ReporterBusy /\ \E w \in Workers : ConsReshape(w)
    \/ ~ReporterBusy /\ \E w \in Workers : ConsChipLock(w)
    \/ ~ReporterBusy /\ \E w \in Workers : ConsChipWrite(w)
    \/ ~ReporterBusy /\ \E w \in Workers : ConsAnnLock(w)
    \/ ~ReporterBusy /\ \E w \in Workers : ConsAnnWrite(w)

Spec == Init /\ [][Next]_vars

-----------------------------------------------------------------------------
(* Arrays: the x/y plane of a chip or annotation array.                    *)
(* An array is [xs, ys, data]: its extents and the value at each position  *)
(* (positions are 0-based, as in the source).                              *)

\* largest extent of a raw array
MaxEdge == 4

\* settings.NO_DATA_VALUE, the fill value of the padding
NO_DATA_VALUE == -9999

Min2(a, b) == IF a < b THEN a ELSE b
Max2(a, b) == IF a > b THEN a ELSE b

Positions(xs, ys) == (0..(xs - 1)) \X (0..(ys - 1))

\* a raw array whose every cell holds a value of its own
Label(i, j) == 100 * (i + 1) + (j + 1)
RawArray(xs, ys) ==
    [xs |-> xs, ys |-> ys,
     data |-> [p \in Positions(xs, ys) |-> Label(p[1], p[2])]]

NoArray == [xs |-> 0, ys |-> 0, data |-> <<>>]

\* utils.pad_xy_xarray, lines 140-147: the pad widths of one axis
PadStart(size, edge) == (edge - size) \div 2
PadEnd(size, edge) == (edge - size) - PadStart(size, edge)

\* xarray's pad refuses a negative width
PadRaises(a, edge) ==
    \/ PadStart(a.xs, edge) < 0 \/ PadEnd(a.xs, edge) < 0
    \/ PadStart(a.ys, edge) < 0 \/ PadEnd(a.ys, edge) < 0

\* utils.pad_xy_xarray, lines 149-155
pad_xy_xarray(a, edge) ==
    LET xa == PadStart(a.xs, edge)
        ya == PadStart(a.ys, edge)
        nx == xa + a.xs + PadEnd(a.xs, edge)
        ny == ya + a.ys + PadEnd(a.ys, edge)
        cell(i, j) == IF /\ i >= xa /\ i < xa + a.xs
                         /\ j >= ya /\ j < ya + a.ys
                         THEN a.data[<<i - xa, j - ya>>]
                         ELSE NO_DATA_VALUE
    IN  [xs |-> nx, ys |-> ny,
         data |-> [p \in Positions(nx, ny) |-> cell(p[1], p[2])]]

\* utils.zarr_reshape, line 125: the array is padded
NeedsPad(a, edge) == edge > Min2(a.xs, a.ys)

\* a bound of Python's slice(start, stop) on an axis of n positions
SliceBound(v, n) == IF v < 0 THEN Max2(v + n, 0) ELSE Min2(v, n)
SliceLo(start, stop, n) == SliceBound(start, n)
SliceLen(start, stop, n) ==
    Max2(SliceBound(stop, n) - SliceBound(start, n), 0)

\* ClipStart rounding the half up instead of down
ClipStartCeil(size, chip) == (size - chip + 1) \div 2

\* ChipsDataset.clip_chip, lines 52-59: the slice bounds of one axis
ClipStart(size, chip) == (size - chip) \div 2
ClipEnd(size, chip) == (size - chip) - ClipStart(size, chip)
ClipStop(size, chip) == 0 - ClipEnd(size, chip)

\* ChipsDataset.clip_chip, line 60: sel on dimensions without coordinates
\* selects by position
clip_chip(a, chip) ==
    LET x0 == SliceLo(ClipStart(a.xs, chip), ClipStop(a.xs, chip), a.xs)
        y0 == SliceLo(ClipStart(a.ys, chip), ClipStop(a.ys, chip), a.ys)
        nx == SliceLen(ClipStart(a.xs, chip), ClipStop(a.xs, chip), a.xs)
        ny == SliceLen(ClipStart(a.ys, chip), ClipStop(a.ys, chip), a.ys)
        cell(i, j) == a.data[<<x0 + i, y0 + j>>]
    IN  [xs |-> nx, ys |-> ny,
         data |-> [p \in Positions(nx, ny) |-> cell(p[1], p[2])]]

\* ChipsDataset.__getitem__, line 87, and get_strata, line 64
NeedsClip(a, chip) == chip < Max2(a.xs, a.ys)

-----------------------------------------------------------------------------
(* zarr_reshape's annotation array: one x/y plane per stratum of the map.  *)
(* A stack of planes is a sequence, plane s+1 being the slice of index s;  *)
(* the empty sequence is None.                                             *)

\* number of entries of the strata map; their indices are 0..NumStrata-1
NumStrata == 2

\* the overlap masks the raw arrays are drawn with (1 inside the region of
\* interest, 0 outside)
MaskKinds == {"full", "lower", "corner", "empty"}
MaskCell(kind, i, j) ==
    CASE kind = "full" -> 1
      [] kind = "lower" -> IF i >= j THEN 1 ELSE 0
      [] kind = "corner" -> IF i = 0 /\ j = 0 THEN 1 ELSE 0
      [] kind = "empty" -> 0
OverlapField(kind, xs, ys) ==
    [xs |-> xs, ys |-> ys,
     data |-> [p \in Positions(xs, ys) |-> MaskCell(kind, p[1], p[2])]]

\* utils.zarr_reshape, line 108: the raw array has an overlap field (ov) and
\* the record a stratum attribute (sidx, empty when it has none)
HasAnnotation(ov, sidx) == ov # NoArray /\ sidx # {}

\* utils.zarr_reshape, line 118: np.zeros(overlap.shape)
Zeros(xs, ys) ==
    [xs |-> xs, ys |-> ys, data |-> [p \in Positions(xs, ys) |-> 0]]

\* AnnSliceStart taking the slice after the stratum's own
AnnSliceStartNext(i) == i + 1

\* utils.zarr_reshape, line 121: the slice stratum_idx:stratum_idx+1
AnnSliceStart(i) == i
AnnSliceStop(i) == AnnSliceStart(i) + 1

\* utils.zarr_reshape, lines 118-121: n zero planes, the planes of the slice
\* overwritten with the overlap field
AnnotationArray(ov, i, n) ==
    LET lo == SliceLo(AnnSliceStart(i), AnnSliceStop(i), n)
        len == SliceLen(AnnSliceStart(i), AnnSliceStop(i), n)
    IN  [s \in 1..n |-> IF s - 1 >= lo /\ s - 1 < lo + len
                           THEN ov
                           ELSE Zeros(ov.xs, ov.ys)]

\* utils.zarr_reshape, lines 107-122: xarr_ann before the padding
BuildAnnotation(ov, sidx) ==
    IF HasAnnotation(ov, sidx)
       THEN AnnotationArray(ov, CHOOSE i \in sidx : TRUE, NumStrata)
       ELSE <<>>

\* utils.zarr_reshape, line 128: pad_xy_xarray pads the x/y plane of every
\* stratum
PadAnnotation(a, edge) == [s \in DOMAIN a |-> pad_xy_xarray(a[s], edge)]

\* the pipeline is idle in the array development
PipeIdle ==
    /\ fileType = "ZARR" /\ overwrite = FALSE /\ ignoreSizeLimit = TRUE
    /\ est = NoEst
    /\ chipData = {} /\ annoData = {} /\ existing0 = {}
    /\ mainPc = "init" /\ idx = 0 /\ jdx = 0
    /\ imageQueue = <<>> /\ resultQueue = <<>> /\ reportQueue = <<>>
    /\ permits = GEE_REQUEST_LIMIT /\ chipLock = 0 /\ annLock = 0
    /\ repPc = "notstarted" /\ logged = [l \in Levels |-> 0]
    /\ genPc = "notstarted" /\ genIdx = 0 /\ genName = 0
    /\ cPc = [w \in Workers |-> "notstarted"]
    /\ cTask = [w \in Workers |-> 0]
    /\ cAttempts = [w \in Workers |-> 0]
    /\ cArr = [w \in Workers |-> FALSE]
    /\ cDecoded = [w \in Workers |-> FALSE]
    /\ cAnno = [w \in Workers |-> FALSE]
    /\ cAble = [w \in Workers |-> FALSE]
    /\ tasksEnq = {} /\ anyFailure = FALSE
    /\ attemptsMade = [r \in Squares |-> 0]
    /\ exhausted = {} /\ maxRetryReported = {} /\ writeAttempted = {}
    /\ resultPushes = [r \in Squares |-> 0]

\* a raw array from the imagery service, with or without an overlap field,
\* the record's stratum, the downloader's pixel_edge_size and the dataset's
\* chip_size
InitArr ==
    /\ PipeIdle /\ DsIdle /\ UtilIdle
    /\ \E xs \in 1..MaxEdge, ys \in 1..MaxEdge : raw = RawArray(xs, ys)
    /\ overlap \in {NoArray} \cup
                   {OverlapField(k, raw.xs, raw.ys) : k \in MaskKinds}
    /\ stratumIdx \in {{}} \cup {{i} : i \in 0..(NumStrata - 1)}
    /\ pixelEdge \in 1..(MaxEdge + 1)
    /\ chipSize \in 1..MaxEdge
    /\ stored = NoArray /\ item = NoArray
    /\ ann = <<>> /\ storedAnn = <<>>
    /\ arrPc = "raw"

\* utils.zarr_reshape, lines 107-134: the annotation array is built, then
\* both arrays are padded; what it returns goes to the stores
ArrReshape ==
    /\ arrPc = "raw"
    /\ LET xarr_ann == BuildAnnotation(overlap, stratumIdx) IN
       /\ ann' = xarr_ann
       /\ IF NeedsPad(raw, pixelEdge)
             THEN IF PadRaises(raw, pixelEdge)
                     THEN /\ arrPc' = "padRaised"
                          /\ stored' = stored /\ storedAnn' = storedAnn
                     ELSE /\ arrPc' = "stored"
                          /\ stored' = pad_xy_xarray(raw, pixelEdge)
                          /\ storedAnn' = PadAnnotation(xarr_ann, pixelEdge)
             ELSE /\ arrPc' = "stored"
                  /\ stored' = raw /\ storedAnn' = xarr_ann
    /\ UNCHANGED <<raw, pixelEdge, chipSize, item, overlap, stratumIdx>>
    /\ UNCHANGED <<pipeVars, dsVars, utilVars>>

\* ChipsDataset.__getitem__, lines 86-88 (and get_strata, lines 63-65): the
\* array read back from the store and cropped
ArrGetItem ==
    /\ arrPc = "stored"
    /\ item' = IF NeedsClip(stored, chipSize)
                  THEN clip_chip(stored, chipSize)
                  ELSE stored
    /\ arrPc' = "item"
    /\ UNCHANGED <<raw, pixelEdge, chipSize, stored>>
    /\ UNCHANGED <<overlap, stratumIdx, ann, storedAnn>>
    /\ UNCHANGED <<pipeVars, dsVars, utilVars>>

NextArr ==
    \/ ArrReshape
    \/ ArrGetItem

SpecArr == InitArr /\ [][NextArr]_vars

-----------------------------------------------------------------------------
(* The dataset layer: ChipsDataModule, ChipsDataset, PreprocesNormalization.*)
(* An optional value is a set: empty for None, else the value's singleton.  *)
(* A stored array is [n0, xs, ys, n3, data]: the extents of its leading     *)
(* axis (year of a chip, stratum of an annotation array), of x, of y and of *)
(* its trailing axis (band; 1 for an annotation array, which has none), and *)
(* the value at each position.  A value is the fraction num/den.            *)

\* number of entries on the year axis of a stored chip
NumYears == 3
\* number of bands of a stored chip
NumBands == 2
\* largest x/y extent of a stored chip
MaxChip == 2
\* the calendar year of the first entry of the year axis
FirstYear == 2000

Val(opt) == CHOOSE v \in opt : TRUE

Float(v) == [num |-> v, den |-> 1]
\* two fractions are the same number
RatEq(a, b) == a.num * b.den = b.num * a.den

Cells(n0, xs, ys, n3) ==
    (0..(n0 - 1)) \X (0..(xs - 1)) \X (0..(ys - 1)) \X (0..(n3 - 1))

\* the square's entry in the chip store: every cell holds a value of its own
StoredChip(xs, ys) ==
    [n0 |-> NumYears, xs |-> xs, ys |-> ys, n3 |-> NumBands,
     data |-> [p \in Cells(NumYears, xs, ys, NumBands) |->
                  Float(1000 * (p[1] + 1) + 100 * (p[2] + 1)
                        + 10 * (p[3] + 1) + p[4] + 1)]]

\* the square's entry in the annotation store, of the chip's x/y extents
StoredAnno(xs, ys) ==
    [n0 |-> NumStrata, xs |-> xs, ys |-> ys, n3 |-> 1,
     data |-> [p \in Cells(NumStrata, xs, ys, 1) |->
                  Float(IF p[1] = 0 THEN MaskCell("lower", p[2], p[3])
                                    ELSE 0)]]

\* the per-band vectors the data module is given when it is given any
Means == [b \in 1..NumBands |-> b]
Stds == [b \in 1..NumBands |-> 2 * b]

\* PreprocesNormalization.forward, line 21, the vectors aligned with the
\* trailing axis (lines 16-18)
Normalize(x, means, stds) ==
    [x EXCEPT !.data =
        [p \in DOMAIN x.data |->
            [num |-> x.data[p].num - means[p[4] + 1] * x.data[p].den,
             den |-> x.data[p].den * stds[p[4] + 1]]]]

\* ChipsDataset.__init__, lines 46-47: a normalization is configured
HasNormalize(means, stds) == means # <<>> /\ stds # <<>>

\* SliceYearStop without the + 1
SliceYearStopExclusive(end_year) == end_year

\* ChipsDataset.slice_year, line 71: the stop of the year slice
SliceYearStop(end_year) == end_year + 1

\* ChipsDataset.slice_year, lines 69-71: sel on the year dimension, which has
\* no coordinate, selects by position
slice_year(xarr, year, base_year, back_step) ==
    LET end_year == year - base_year
        start_year == end_year - back_step
        lo == SliceLo(start_year, SliceYearStop(end_year), xarr.n0)
        len == SliceLen(start_year, SliceYearStop(end_year), xarr.n0)
    IN  [xarr EXCEPT
            !.n0 = len,
            !.data = [p \in Cells(len, xarr.xs, xarr.ys, xarr.n3) |->
                         xarr.data[<<lo + p[1], p[2], p[3], p[4]>>]]]

\* ChipsDataset.clip_chip, lines 52-60, on a stored array
ClipStored(xarr, chip) ==
    LET x0 == SliceLo(ClipStart(xarr.xs, chip), ClipStop(xarr.xs, chip), xarr.xs)
        y0 == SliceLo(ClipStart(xarr.ys, chip), ClipStop(xarr.ys, chip), xarr.ys)
        nx == SliceLen(ClipStart(xarr.xs, chip), ClipStop(xarr.xs, chip), xarr.xs)
        ny == SliceLen(ClipStart(xarr.ys, chip), ClipStop(xarr.ys, chip), xarr.ys)
    IN  [xarr EXCEPT
            !.xs = nx, !.ys = ny,
            !.data = [p \in Cells(xarr.n0, nx, ny, xarr.n3) |->
                         xarr.data[<<p[1], x0 + p[2], y0 + p[3], p[4]>>]]]

\* ChipsDataset.__getitem__, lines 87-88, and get_strata, lines 64-65
ClipIfLarger(xarr, chip) ==
    IF chip < Max2(xarr.xs, xarr.ys) THEN ClipStored(xarr, chip) ELSE xarr

\* ChipsDataset.get_strata, lines 62-66
get_strata(anno, chip) == ClipIfLarger(anno, chip)


\* dict | dict: the right operand's entries win
MergeDict(d, o) ==
    [k \in (DOMAIN d) \cup (DOMAIN o) |-> IF k \in DOMAIN o THEN o[k] ELSE d[k]]

\* ChipsDataModule.__init__, lines 160-169
dataset_config(cfg) ==
    [means |-> cfg.means, stds |-> cfg.stds, file_type |-> cfg.file_type,
     chip_data_path |-> cfg.chip_data_path,
     anno_data_path |-> cfg.anno_data_path,
     chip_size |-> cfg.chip_size,
     base_year |-> cfg.base_year, back_step |-> cfg.back_step]

\* ChipsDataModule.__init__, lines 171-176
dataloader_config(cfg) ==
    [batch_size |-> cfg.batch_size, num_workers |-> cfg.num_workers,
     pin_memory |-> TRUE, drop_last |-> TRUE]

\* ChipsDataset.__init__, lines 25-47: the keyword arguments over the default
\* of include_names
ChipsDataset(kwargs) == MergeDict([include_names |-> FALSE], kwargs)

\* PredictOverrides without the annotation path
PredictOverridesNamesOnly == [include_names |-> TRUE]

\* ChipsDataModule.setup, lines 202-205: what the predict stage overrides
PredictOverrides == [anno_data_path |-> {}, include_names |-> TRUE]

\* ChipsDataModule.predict_dataloader, line 228
PredictLoaderOverrides == [drop_last |-> FALSE]

Stages == {"fit", "validate", "test", "predict"}
DatasetNames == {"training_ds", "validate_ds", "test_ds", "predict_ds"}

\* ChipsDataModule.setup, lines 178-205: the datasets the stage builds
Built(stage) ==
    CASE stage = "fit" -> {"training_ds", "validate_ds"}
      [] stage = "validate" -> {"validate_ds"}
      [] stage = "test" -> {"test_ds"}
      [] stage = "predict" -> {"predict_ds"}

\* the sample-index path each dataset is built with
SamplePath(name) ==
    CASE name = "training_ds" -> "train_sample_path"
      [] name = "validate_ds" -> "validate_sample_path"
      [] name = "test_ds" -> "test_sample_path"
      [] name = "predict_ds" -> "predict_sample_path"

\* ChipsDataModule.setup: the dataset of that name as the stage builds it
NewDataset(name) ==
    LET config == dataset_config(dmCfg)
        kwargs == IF name = "predict_ds"
                     THEN MergeDict(config, PredictOverrides)
                     ELSE config
    IN  ChipsDataset(MergeDict([sample_path |-> SamplePath(name)], kwargs))

Setup(stage) ==
    /\ datasets' = [n \in DatasetNames |->
                      IF n \in Built(stage) THEN {NewDataset(n)}
                                            ELSE datasets[n]]
    /\ UNCHANGED <<dmCfg, sampleYear, dsChip, dsAnno, loader, dsItem>>
    /\ UNCHANGED <<pipeVars, arrVars, utilVars>>

\* DataLoader(dataset=..., **config); the dataset attribute exists only once
\* setup has built it
MakeLoader(kind, name, config) ==
    /\ datasets[name] # {}
    /\ loader' = {MergeDict([kind |-> kind, dataset |-> name], config)}
    /\ UNCHANGED <<dmCfg, sampleYear, dsChip, dsAnno, datasets, dsItem>>
    /\ UNCHANGED <<pipeVars, arrVars, utilVars>>

\* ChipsDataModule, lines 207-229
train_dataloader ==
    MakeLoader("train", "training_ds", dataloader_config(dmCfg))
val_dataloader ==
    MakeLoader("val", "validate_ds", dataloader_config(dmCfg))
test_dataloader ==
    MakeLoader("test", "test_ds", dataloader_config(dmCfg))
predict_dataloader ==
    MakeLoader("predict", "predict_ds",
               MergeDict(dataloader_config(dmCfg), PredictLoaderOverrides))

\* the square name of the sample record
SquareName == "square"

\* ChipsDataset.__getitem__, lines 73-107, on the dataset of that name.  Kept
\* with the item: the tensor of line 91 and the local chip when it returns.
GetItem(name) ==
    /\ datasets[name] # {}
    /\ LET ds == Val(datasets[name])
           image == dsChip
           sliced == IF ds.base_year # {} /\ ds.back_step # {}
                        THEN slice_year(image, sampleYear, Val(ds.base_year),
                                        Val(ds.back_step))
                        ELSE image
           tensor == ClipIfLarger(sliced, ds.chip_size)
           item0 == <<tensor>>
           chip == IF HasNormalize(ds.means, ds.stds)
                      THEN Normalize(tensor, ds.means, ds.stds)
                      ELSE tensor
           item1 == IF ds.anno_data_path # {}
                       THEN Append(item0, get_strata(dsAnno, ds.chip_size))
                       ELSE item0
           item2 == IF ds.include_names
                       THEN Append(item1, SquareName)
                       ELSE item1
       IN  dsItem' = {[dataset |-> name, item |-> item2,
                       tensor |-> tensor, chip |-> chip]}
    /\ UNCHANGED <<dmCfg, sampleYear, dsChip, dsAnno, datasets, loader>>
    /\ UNCHANGED <<pipeVars, arrVars, utilVars>>

\* ChipsDataModule.__init__ and the stores it points at: one sample record,
\* whose square has a chip entry and an annotation entry
InitData ==
    /\ PipeIdle /\ ArrIdle /\ UtilIdle
    /\ \E norm \in {<<Means, Stds>>, <<Means, <<>> >>, << <<>>, <<>> >>},
          anno \in {{}, {"anno_data_path"}},
          base \in {{}, {FirstYear}},
          back \in {{}} \cup {{k} : k \in 0..(NumYears - 1)},
          size \in 1..MaxChip :
        dmCfg = [batch_size |-> 4, num_workers |-> 2,
                 means |-> norm[1], stds |-> norm[2],
                 file_type |-> "zarr", chip_data_path |-> "chip_data_path",
                 anno_data_path |-> anno, chip_size |-> size,
                 base_year |-> base, back_step |-> back]
    /\ sampleYear \in FirstYear..(FirstYear + NumYears - 1)
    /\ \E xs \in 1..MaxChip, ys \in 1..MaxChip :
        dsChip = StoredChip(xs, ys) /\ dsAnno = StoredAnno(xs, ys)
    /\ datasets = [n \in DatasetNames |-> {}]
    /\ loader = {} /\ dsItem = {}

NextData ==
    \/ \E stage \in Stages : Setup(stage)
    \/ train_dataloader
    \/ val_dataloader
    \/ test_dataloader
    \/ predict_dataloader
    \/ \E name \in DatasetNames : GetItem(name)

SpecData == InitData /\ [][NextData]_vars

-----------------------------------------------------------------------------
(* The utility functions of pipeline/utils.py and the reprojection code of  *)
(* the generator, each applied to arguments drawn from bounded sets.  A     *)
(* coordinate is the text it is formatted as; a string is the sequence of   *)
(* its characters and of these texts.                                       *)

\* longest geometry list and coordinate list
MaxPairs == 3
\* largest back_step
MaxBackStep == 2
\* largest band count of an image
MaxBands == 3

Numbers == {"1", "2"}
Coords == Numbers \cup {"nan"}
\* the lists of at most n elements of S
ListsUpTo(S, n) == UNION {[1..k -> S] : k \in 0..n}

\* c == c on floats: NaN is the one value that is not equal to itself
SelfEqual(c) == c # "nan"

\* KeepsPair with any in the place of all
KeepsPairAny(p) == \E k \in DOMAIN p : SelfEqual(p[k])

\* utils.parse_meta_data, line 180: all(c == c for c in p)
KeepsPair(p) == \A k \in DOMAIN p : SelfEqual(p[k])

datetime(y, m, d) == [y |-> y, m |-> m, d |-> d]
\* None in the place of a date
NoDate == [y |-> 0, m |-> 0, d |-> 0]

\* utils.parse_meta_data, lines 177-212, on the record at the index; year is
\* empty when the catalog has no year variable
parse_meta_data(rec, back_step) ==
    [geometry |-> SelectSeq(rec.geometry, KeepsPair),
     point_coords |-> rec.point_coords,
     point_name |-> rec.point_name,
     square_coords |-> rec.square_coords,
     square_name |-> rec.square_name,
     start_date |-> IF rec.year # {}
                       THEN datetime(Val(rec.year) - back_step, 6, 1)
                       ELSE NoDate,
     end_date |-> IF rec.year # {}
                     THEN datetime(Val(rec.year), 9, 1)
                     ELSE NoDate,
     attributes |-> rec.attributes]

\* the catalog records parse_meta_data is applied to
Records ==
    [geometry : ListsUpTo(Coords \X Coords, MaxPairs),
     point_coords : {<<"1", "2">>}, point_name : {"x1y2"},
     square_coords : {<< <<"1", "1">>, <<"2", "2">>, <<"1", "1">> >>},
     square_name : {"x1y1_x2y2"},
     year : {{}} \cup {{y} : y \in FirstYear..(FirstYear + 1)},
     attributes : {"attributes"}]

ParseMetaData ==
    /\ uFn = "parse_meta_data" /\ uRet = {}
    /\ uRet' = {parse_meta_data(uArgs.rec, uArgs.back_step)}
    /\ UNCHANGED <<uFn, uArgs>>
    /\ UNCHANGED <<pipeVars, arrVars, dsVars>>

\* f"x{x}y{y}"
Segment(x, y) == <<"x">> \o x \o <<"y">> \o y
\* a number formatted, and a pair of numbers formatted
FmtNumber(v) == <<v>>
FmtPair(p) == <<"(", p[1], ",", " ", p[2], ")">>

\* "_".join
RECURSIVE Join(_)
Join(segs) ==
    IF segs = <<>> THEN <<>>
    ELSE IF Len(segs) = 1 THEN segs[1]
    ELSE segs[1] \o <<"_">> \o Join(Tail(segs))

\* utils.generate_coords_name, line 159
DropsLast(coords) == Len(coords) > 2

\* utils.generate_coords_name, lines 158-163.  flat: coords is one pair
\* (x, y), of length 2, and not a list of pairs.  In the else branch
\* coords[0] and coords[1] are formatted as they are, and a list shorter than
\* 2 raises IndexError.
generate_coords_name(flat, coords) ==
    IF DropsLast(coords)
       THEN [raised |-> FALSE,
             name |-> Join([k \in 1..(Len(coords) - 1) |->
                              Segment(FmtNumber(coords[k][1]),
                                      FmtNumber(coords[k][2]))])]
    ELSE IF Len(coords) < 2
       THEN [raised |-> TRUE, name |-> <<>>]
    ELSE IF flat
       THEN [raised |-> FALSE,
             name |-> Segment(FmtNumber(coords[1]), FmtNumber(coords[2]))]
       ELSE [raised |-> FALSE,
             name |-> Segment(FmtPair(coords[1]), FmtPair(coords[2]))]

GenerateCoordsName ==
    /\ uFn = "generate_coords_name" /\ uRet = {}
    /\ uRet' = {generate_coords_name(uArgs.flat, uArgs.coords)}
    /\ UNCHANGED <<uFn, uArgs>>
    /\ UNCHANGED <<pipeVars, arrVars, dsVars>>

\* the precisions the imagery service reports for a band
Precisions == {"int16", "int32", "int", "int64", "double", "float"}
PixelCounts == {0, 1, 1250, 2500, 1234567, 1000000}

\* ByteWidth taking a 32-bit integer for a 16-bit one
ByteWidthShort(precision) ==
    CASE precision \in {"int16", "int32", "int"} -> 2
      [] precision \in {"int64", "double"} -> 8
      [] OTHER -> 0

\* utils.estimate_download_size, lines 36-42: bytes per value; 0 when no case
\* matches
ByteWidth(precision) ==
    CASE precision = "int16" -> 2
      [] precision \in {"int32", "int"} -> 4
      [] precision \in {"int64", "double"} -> 8
      [] OTHER -> 0

\* round(n / 1e6, 2) in hundredths.  n / 1e6 is the float next to the exact
\* quotient, which at an exact half lies on either side of it.
Round2(n) ==
    LET q == n \div 10000
        r == n % 10000
    IN  IF r < 5000 THEN {q} ELSE IF r > 5000 THEN {q + 1} ELSE {q, q + 1}

\* utils.estimate_download_size, lines 35-42: data_count in hundredths; it
\* stays pixel_count * band_count when no case matches
DataCount(pixel_count, band_count, precision) ==
    IF ByteWidth(precision) # 0
       THEN Round2(pixel_count * band_count * ByteWidth(precision))
       ELSE {100 * pixel_count * band_count}

\* utils.estimate_download_size, lines 29-43 (and src/utils.py, lines 28-42)
EstimateDownloadSize ==
    /\ uFn = "estimate_download_size" /\ uRet = {}
    /\ \E mb \in DataCount(uArgs.pixel_count, uArgs.band_count,
                           uArgs.precision) :
          uRet' = {[mb |-> mb, pixel_count |-> uArgs.pixel_count,
                    band_count |-> uArgs.band_count]}
    /\ UNCHANGED <<uFn, uArgs>>
    /\ UNCHANGED <<pipeVars, arrVars, dsVars>>

\* the orders in which a set of strings can be iterated: the order follows
\* the strings' hashes, which are salted per interpreter, so every order of
\* the elements is one an interpreter can produce
SetOrders(S) ==
    {o \in [1..Cardinality(S) -> S] :
        \A j, k \in 1..Cardinality(S) : j # k => o[j] # o[k]}

\* utils.zarr_reshape, lines 90-93: the fields of the raw array other than
\* the overlap, split at '_' into year and band, and the two sets made of them
FieldYears(names) == {names[k][1] : k \in 1..Len(names)}
FieldBands(names) == {names[k][2] : k \in 1..Len(names)}

\* utils.zarr_reshape, lines 94-100: position i of the year axis holds the
\* i-th year of the iteration, position j of its band axis the field of that
\* year and the j-th band of the iteration
Unflatten(yearOrder, bandOrder) ==
    [i \in 1..Len(yearOrder) |->
        [j \in 1..Len(bandOrder) |-> <<yearOrder[i], bandOrder[j]>>]]

\* the fields '{year}_{band}' of a raw array of ny years and nb bands, as the
\* imagery service lists them
FieldNames(ny, nb) ==
    [k \in 1..(ny * nb) |->
        <<FirstYear + ((k - 1) \div nb), ((k - 1) % nb) + 1>>]

\* utils.zarr_reshape, lines 89-100, called twice on the same raw array, by
\* one interpreter (the sets are built and iterated the same way both times)
\* or by two (a second run, or a consumer that was not forked)
ZarrReshapeAxes ==
    /\ uFn = "zarr_reshape" /\ uRet = {}
    /\ \E yo1, yo2 \in SetOrders(FieldYears(uArgs.names)),
          bo1, bo2 \in SetOrders(FieldBands(uArgs.names)) :
          /\ uArgs.same_interpreter => (yo2 = yo1 /\ bo2 = bo1)
          /\ uRet' = {[first |-> Unflatten(yo1, bo1),
                       second |-> Unflatten(yo2, bo2)]}
    /\ UNCHANGED <<uFn, uArgs>>
    /\ UNCHANGED <<pipeVars, arrVars, dsVars>>

\* the UTM zone numbers utm.from_latlon returns, and latitudes south of, on
\* and north of the equator
Zones == 1..60
Latitudes == {-1, 0, 1}

DigitChars == <<"0", "1", "2", "3", "4", "5", "6", "7", "8", "9">>

\* f"{n}" of a non-negative integer: its decimal digits, without padding
RECURSIVE FmtInt(_)
FmtInt(n) ==
    IF n < 10 THEN <<DigitChars[n + 1]>>
    ELSE FmtInt(n \div 10) \o <<DigitChars[(n % 10) + 1]>>

\* downloader.py, line 306: the prefix chosen by the point's latitude
EpsgPrefix(lat) ==
    IF lat > 0 THEN <<"E", "P", "S", "G", ":", "3", "2", "6">>
    ELSE <<"E", "P", "S", "G", ":", "3", "2", "7">>

\* the selector 'UTM' and another selector, a code given as it is
UTM == <<"U", "T", "M">>
GivenCode == <<"E", "P", "S", "G", ":", "4", "3", "2", "6">>

\* downloader.py, lines 302-309: epsg_code for the selector (empty when
\* absent), the point's latitude and its zone number
epsg_code(reprojection, lat, zone) ==
    IF reprojection = {UTM}
       THEN {EpsgPrefix(lat) \o FmtInt(zone)}
       ELSE reprojection

\* downloader.py, lines 301-314: the code is computed and, unless it is None,
\* the image reprojected to it
Reproject ==
    /\ uFn = "reprojection" /\ uRet = {}
    /\ LET code == epsg_code(uArgs.reprojection, uArgs.lat, uArgs.zone)
       IN  uRet' = {[epsg_code |-> code, reprojected |-> code # {}]}
    /\ UNCHANGED <<uFn, uArgs>>
    /\ UNCHANGED <<pipeVars, arrVars, dsVars>>

InitUtil ==
    /\ PipeIdle /\ ArrIdle /\ DsIdle
    /\ uRet = {}
    /\ \/ /\ uFn = "parse_meta_data"
          /\ uArgs \in [rec : Records, back_step : 0..MaxBackStep]
       \/ /\ uFn = "generate_coords_name"
          /\ uArgs \in [flat : {TRUE}, coords : Numbers \X Numbers]
                       \cup [flat : {FALSE},
                             coords : ListsUpTo(Numbers \X Numbers, MaxPairs)]
       \/ /\ uFn = "estimate_download_size"
          /\ uArgs \in [pixel_count : PixelCounts, band_count : 1..MaxBands,
                        precision : Precisions]
       \/ /\ uFn = "zarr_reshape"
          /\ uArgs \in [names : {FieldNames(ny, nb) : ny \in 1..NumYears,
                                                      nb \in 1..NumBands},
                        same_interpreter : BOOLEAN]
       \/ /\ uFn = "reprojection"
          /\ uArgs \in [reprojection : {{}, {UTM}, {GivenCode}},
                        lat : Latitudes, zone : Zones]

NextUtil ==
    \/ ParseMetaData
    \/ GenerateCoordsName
    \/ EstimateDownloadSize
    \/ ZarrReshapeAxes
    \/ Reproject

SpecUtil == InitUtil /\ [][NextUtil]_vars

-----------------------------------------------------------------------------
(* Properties of the Downloader (Spec).                                    *)

InFetch == {w \in Workers : cPc[w] = "fetch"}
ChipWriters == {w \in Workers : cPc[w] = "chipWrite"}
AnnWriters == {w \in Workers : cPc[w] = "annWrite"}

\* generator and consumers have ended and every result has been taken
Quiescent ==
    /\ genPc = "done"
    /\ \A w \in Workers : cPc[w] = "done"
    /\ resultQueue = <<>>

\* the watcher waits for a result that no process will ever put
Hung ==
    /\ mainPc = "watch" /\ WatcherLoops(idx)
    /\ resultQueue = <<>>
    /\ Ended(genPc)
    /\ \A w \in Workers :
          cPc[w] = "done" \/ (cPc[w] = "get" /\ imageQueue = <<>>)

\* C1: chunked output, overwrite unset, no failure: once the generator and
\* the consumers have ended and the result queue is drained, the generator has
\* enqueued exactly n-k tasks (k the records found in both stores) and the
\* watcher has counted n completions, so that it leaves its loop.
C1_SkippedCountAsComplete ==
    (fileType = "ZARR" /\ ~overwrite /\ ~anyFailure /\ Quiescent)
        => /\ Cardinality(tasksEnq) = MetaSize - Cardinality(existing0)
           /\ idx = MetaSize

\* C2: whatever fails for single records, the generator does not die before
\* its sentinels, and the watcher is never left waiting for a result that
\* cannot come (stated for overwrite set, where no record is skipped).
C2_FailuresNeverAbort ==
    /\ genPc # "crashed"
    /\ overwrite => ~Hung

\* C3: a square whose fetch failed on every attempt had exactly Retries
\* attempts, got the "max retries" ERROR report and no write of any kind, and
\* its consumer goes on to take the next task.
C3_RetryExhaustion ==
    /\ \A t \in exhausted :
          /\ attemptsMade[t] = Retries
          /\ t \in maxRetryReported
          /\ t \notin writeAttempted
    /\ \A w \in Workers :
          (cPc[w] # "notstarted" /\ cTask[w] \in exhausted)
              => cPc[w] \in {"save", "get", "done"}

\* C3 witness: a consumer is back at the queue after a square it gave up
C3_Witness ==
    \E w \in Workers :
        /\ cPc[w] = "get" /\ cTask[w] \in exhausted
        /\ attemptsMade[cTask[w]] = Retries

\* C4: when attempt k >= 2 finds the service able to answer (the earlier
\* attempts having failed), the consumer has the pixel array after it.
C4_RetrySucceeds ==
    \A w \in Workers :
        (cPc[w] \in {"attempt", "save"} /\ cAttempts[w] >= 2 /\ cAble[w])
            => cArr[w]

\* C5: bypass unset and one of the three limits exceeded: start() has raised,
\* no process was started and nothing was put on any queue.
C5_PreflightAbort ==
    (~ignoreSizeLimit /\ ~WithinLimits(est) /\ mainPc # "init")
        => /\ mainPc = "raised"
           /\ repPc = "notstarted" /\ genPc = "notstarted"
           /\ \A w \in Workers : cPc[w] = "notstarted"
           /\ imageQueue = <<>> /\ resultQueue = <<>> /\ reportQueue = <<>>

\* C5 witness: only the size is over its limit, and start() has raised
C5_Witness ==
    /\ ~ignoreSizeLimit /\ mainPc = "raised"
    /\ est.size > SizeLimit * 100
    /\ est.pixels <= PixelLimit * PixelLimit
    /\ est.bands <= BandLimit

\* C6: bypass unset and the representative request within all three limits:
\* start() does not raise (it launches the watcher).
C6_PreflightPass ==
    (~ignoreSizeLimit /\ WithinLimits(est) /\ mainPc # "init")
        => mainPc # "raised"

\* C7: at most GEE_REQUEST_LIMIT consumers are inside the pixel-retrieval
\* call, and every permit is either free or held by a consumer inside it.
C7_RequestLimiter ==
    /\ Cardinality(InFetch) <= GEE_REQUEST_LIMIT
    /\ permits >= 0
    /\ permits + Cardinality(InFetch) = GEE_REQUEST_LIMIT

\* C7 witness: every permit is taken, one consumer waits for one, and another
\* is retrying after an attempt that raised
C7_Witness ==
    /\ Cardinality(InFetch) = GEE_REQUEST_LIMIT
    /\ \E w \in Workers : cPc[w] = "acquire" /\ cAttempts[w] >= 2

\* C8: at most one consumer appends to the chip store and at most one to the
\* annotation store; a lock is held exactly while its holder is in the append;
\* no consumer holds both locks.
C8_StoreWriteExclusion ==
    /\ Cardinality(ChipWriters) <= 1
    /\ Cardinality(AnnWriters) <= 1
    /\ \A w \in Workers :
          /\ (chipLock = w) <=> (cPc[w] = "chipWrite")
          /\ (annLock = w) <=> (cPc[w] = "annWrite")
          /\ ~(chipLock = w /\ annLock = w)
    /\ chipLock \in Workers \cup {0}
    /\ annLock \in Workers \cup {0}

\* C8 witness: one consumer is in the chip append, holding the chip lock,
\* while another waits for that lock
C8_Witness ==
    \E w, v \in Workers :
        /\ w # v
        /\ cPc[w] = "chipWrite" /\ chipLock = w
        /\ cPc[v] = "chipLock"

\* consumer w leaves the write of a raw-byte format in this step, the write
\* having failed: more than the "Attempting to save" report was put
RawWriteFails(w) ==
    /\ fileType \in {"NPY", "GEO_TIFF"}
    /\ cPc[w] = "save" /\ cArr[w] /\ cPc'[w] = "get"
    /\ reportQueue' # Put(reportQueue, <<"INFO">>)

\* C19: when the write of a square's bytes fails, for NPY and for GEO_TIFF,
\* the failure is reported and either no file of the square is left at its
\* chip path or the failure of the removal is reported as well; the consumer
\* goes on in both cases.
C19_RawWriteCleanup ==
    [][\A w \in Workers :
          RawWriteFails(w) =>
              \/ /\ reportQueue' = Put(reportQueue, <<"INFO", "ERROR">>)
                 /\ cTask[w] \notin chipData'
              \/ reportQueue' = Put(reportQueue, <<"INFO", "ERROR", "ERROR">>)
      ]_vars

\* C20: every message on the report queue is a (level, message) pair or the
\* sentinel, and the reporter never fails on one.
C20_ReportShape ==
    /\ \A k \in 1..Len(reportQueue) :
          reportQueue[k] \in Levels \cup {NoneMsg}
    /\ repPc # "crashed"

\* the reports this step appends to the report queue
NewReports == SubSeq(reportQueue', Len(reportQueue) + 1, Len(reportQueue'))

\* how many of the reports this step appends are at the given level
NewAt(level) ==
    Cardinality({k \in 1..Len(NewReports) : NewReports[k] = level})

\* the generator leaves the record it is at by an exception in this step:
\* it dies, or it goes on after the CRITICAL report of one of its handlers
GenRecordFails ==
    /\ genPc = "loop" /\ genIdx < MetaSize
    /\ \/ genPc' = "crashed"
       \/ genIdx' = genIdx + 1 /\ NewAt("CRITICAL") > 0

\* C21: when the processing of record i raises in the generator, for any i
\* (the first included), the generator puts one CRITICAL report, pushes the
\* name of record i itself to the result queue once, enqueues no image task
\* and goes on with record i+1 (and so reaches its sentinels).
C21_GeneratorRecordFailure ==
    [][GenRecordFails =>
          /\ genPc' = "loop" /\ genIdx' = genIdx + 1
          /\ NewAt("CRITICAL") = 1
          /\ resultQueue' = Put(resultQueue, <<Rec>>)
          /\ imageQueue' = imageQueue
      ]_vars

\* the consumers that are between taking a task and returning for the next
Processing == {w \in Workers : cPc[w] \notin {"notstarted", "get", "done"}}

\* the image tasks waiting on the image queue
Waiting == {imageQueue[k] : k \in 1..Len(imageQueue)} \ {None}

\* task t was taken from the image queue and its consumer is through with it
Finished(t) ==
    /\ t \in tasksEnq /\ t \notin Waiting
    /\ \A w \in Processing : cTask[w] # t

\* number of termination sentinels on queue q
SentinelsOn(q) == Cardinality({k \in 1..Len(q) : q[k] = None})

\* C22: every image task a consumer takes leads to exactly one push of the
\* square's name to the result queue (never two, and one once the consumer is
\* through with it), whatever became of the fetch and of the write; and each
\* consumer pushes one termination sentinel, after its last task's result.
C22_ResultExactlyOnce ==
    /\ \A t \in Squares :
          /\ resultPushes[t] <= 1
          /\ Finished(t) => resultPushes[t] = 1
    /\ WatcherLoops(idx) =>
          jdx + SentinelsOn(resultQueue) =
              Cardinality({w \in Workers : cPc[w] = "done"})
    /\ \A w \in Workers :
          (cPc[w] = "done" /\ cTask[w] # 0) => resultPushes[cTask[w]] >= 1

\* the watcher has left its loop and put the reporter's sentinel
SentinelSent == mainPc \in {"join", "done"}

\* C23: the watcher puts the reporter's sentinel only when every square of the
\* catalog is through (the generator past its last record, no task waiting or
\* in a consumer's hands), so that no report follows the sentinel, and the
\* reporter leaves no report on the queue when it terminates.
C23_NoReportLost ==
    /\ SentinelSent =>
          /\ genIdx = MetaSize
          /\ Waiting = {} /\ Processing = {}
    /\ repPc = "done" => reportQueue = <<>>

\* the consumers that have left their loop
Stopped == {w \in Workers : cPc[w] = "done"}

\* C24: the generator enqueues its sentinels only after its last image task,
\* one per worker; a waiting task is on the queue once and in no consumer's
\* hands, and no two consumers hold the same task; a consumer stops at the
\* one sentinel it takes; and once all consumers have stopped the image queue
\* is empty and every task enqueued has been processed to its result.
C24_SentinelProtocol ==
    /\ \A j, k \in 1..Len(imageQueue) :
          /\ (j < k /\ imageQueue[j] = None) => imageQueue[k] = None
          /\ (j # k /\ imageQueue[j] # None) => imageQueue[j] # imageQueue[k]
    /\ genPc # "done" => (SentinelsOn(imageQueue) = 0 /\ Stopped = {})
    /\ genPc = "done" =>
          SentinelsOn(imageQueue) + Cardinality(Stopped) = NumWorkers
    /\ Waiting \subseteq tasksEnq
    /\ \A w \in Processing :
          /\ cTask[w] \in tasksEnq \ Waiting
          /\ \A v \in Processing : v # w => cTask[v] # cTask[w]
    /\ Stopped = Workers =>
          /\ imageQueue = <<>>
          /\ \A t \in tasksEnq : resultPushes[t] >= 1

\* C24 witness: every square was enqueued, each consumer processed one of
\* them, and both have stopped at their sentinel
C24_Witness ==
    /\ Stopped = Workers /\ tasksEnq = Squares
    /\ \A w \in Workers : cTask[w] # 0
    /\ \A w, v \in Workers : w # v => cTask[w] # cTask[v]
    /\ imageQueue = <<>>

\* the consumers waiting for, or inside, one of the two appends
AtChipAppend == {w \in Workers : cPc[w] \in {"chipLock", "chipWrite"}}
AtAnnAppend == {w \in Workers : cPc[w] \in {"annLock", "annWrite"}}

\* consumer w leaves the chip append in this step by an exception
ChipAppendRaises(w) ==
    /\ cPc[w] = "chipWrite" /\ cPc'[w] # "chipWrite"
    /\ NewAt("ERROR") > 0

\* C25: in the chunked format a consumer turns to the annotation append only
\* after its chip append has completed (the square is in the chip store, the
\* chip lock given back); a chip append that raises is followed by no
\* annotation append for the square, only by its result; and the square's
\* name is not pushed before the appends are over.
C25_ChipThenAnnotation ==
    /\ [](/\ \A w \in AtAnnAppend :
                /\ fileType = "ZARR" /\ cAnno[w]
                /\ cTask[w] \in chipData /\ cTask[w] \in writeAttempted
                /\ chipLock # w
                /\ resultPushes[cTask[w]] = 0
          /\ \A w \in AtChipAppend : resultPushes[cTask[w]] = 0)
    /\ [][/\ \A w \in Workers :
                ChipAppendRaises(w) =>
                    /\ cPc'[w] = "get"
                    /\ annoData' = annoData
                    /\ resultQueue' = Put(resultQueue, <<cTask[w]>>)
          /\ annoData' # annoData => \E w \in Workers : cPc[w] = "annWrite"
         ]_vars

\* C25 witness: a consumer is inside the annotation append of a square whose
\* chip append it has completed, the name not yet pushed
C25_Witness ==
    \E w \in Workers :
        /\ cPc[w] = "annWrite" /\ annLock = w
        /\ cTask[w] \in chipData
        /\ resultPushes[cTask[w]] = 0

\* the generator passes the record it is at in this step
GenPasses == genPc = "loop" /\ genIdx < MetaSize /\ genIdx' = genIdx + 1

\* ... without a failure and without a task: the record is skipped
GenSkipsRecord ==
    GenPasses /\ NewAt("CRITICAL") = 0 /\ imageQueue' = imageQueue

\* ... by the probe of the stores raising something else than not-found:
\* the name is bound and the CRITICAL report is all that is put
GenProbeRaises ==
    GenPasses /\ genName' = Rec /\ NewReports = <<"CRITICAL">>

\* C26: with overwrite set no record is skipped, the task of every record that
\* does not fail is enqueued; with overwrite unset a record is skipped only
\* when its name is in both stores; in the chunked format a name missing from
\* either store leads, after the report of the not-found condition, to the
\* task being enqueued, and any other exception of the probe to the record's
\* name on the result queue and no task.
C26_SkipDecision ==
    [][/\ (GenPasses /\ overwrite /\ NewAt("CRITICAL") = 0)
              => imageQueue' = Put(imageQueue, <<Rec>>)
       /\ GenSkipsRecord => (~overwrite /\ FoundBoth(Rec))
       /\ (GenPasses /\ fileType = "ZARR" /\ ~overwrite /\ ~FoundBoth(Rec)
             /\ NewAt("CRITICAL") = 0)
              => /\ imageQueue' = Put(imageQueue, <<Rec>>)
                 /\ NewReports = <<"INFO", "INFO", "INFO">>
       /\ GenProbeRaises
              => /\ fileType = "ZARR" /\ ~overwrite
                 /\ resultQueue' = Put(resultQueue, <<Rec>>)
                 /\ imageQueue' = imageQueue
      ]_vars

\* C26 witness: chunked format, overwrite unset, the generator through the
\* catalog without a failure: the squares found in both stores were skipped
\* and the others, of which there are some, enqueued
C26_Witness ==
    /\ fileType = "ZARR" /\ ~overwrite /\ ~anyFailure
    /\ genPc = "done"
    /\ existing0 # {} /\ tasksEnq # {}
    /\ tasksEnq = Squares \ existing0

\* every square of the catalog was fetched and persisted without error, and
\* the run is over
CleanRun ==
    /\ tasksEnq = Squares /\ ~anyFailure
    /\ genPc = "done" /\ Stopped = Workers

\* the records for which a run over the stores as they are now, with
\* overwrite unset, would not take the skipping branch (lines 250, 261-266)
RerunBuilds == {r \in Squares : ~FoundBoth(r)}

\* C27: after a run in which every square was fetched and persisted without
\* error, a second run over the same catalog with overwrite unset finds every
\* square and enqueues no task, in every output format and with or without
\* annotation arrays.
C27_RerunIdempotent == CleanRun => RerunBuilds = {}

-----------------------------------------------------------------------------
(* Properties of the arrays (SpecArr).                                     *)

\* C9: a stored array with both extents at least the chip size and one of
\* them larger comes out of item access with both extents equal to the chip
\* size, taken from the center (lower offset diff \div 2 on each axis).
C9_CenterCrop ==
    (/\ arrPc = "item"
     /\ stored.xs >= chipSize /\ stored.ys >= chipSize
     /\ (stored.xs > chipSize \/ stored.ys > chipSize))
        => /\ item.xs = chipSize /\ item.ys = chipSize
           /\ \A p \in Positions(chipSize, chipSize) :
                 item.data[p] =
                     stored.data[<<p[1] + (stored.xs - chipSize) \div 2,
                                   p[2] + (stored.ys - chipSize) \div 2>>]

\* C10: a square array of edge s padded to E > s and cropped back to s is the
\* original array, content and positions.
C10_PadCropRoundTrip ==
    (/\ arrPc = "item"
     /\ raw.xs = raw.ys /\ pixelEdge > raw.xs /\ chipSize = raw.xs)
        => item = raw

\* C10 witness: an odd difference, padded 1 below and 2 above, cropped back
C10_Witness ==
    /\ arrPc = "item"
    /\ raw.xs = 2 /\ raw.ys = 2 /\ pixelEdge = 5 /\ chipSize = 2
    /\ stored.xs = 5 /\ stored.data[<<0, 0>>] = NO_DATA_VALUE
    /\ stored.data[<<1, 1>>] = raw.data[<<0, 0>>]
    /\ item = raw

\* zarr_reshape has ended, by returning or by raising
Reshaped == arrPc \in {"stored", "item", "padRaised"}
\* zarr_reshape has returned
Returned == arrPc \in {"stored", "item"}

\* C11: for every raw array, whatever its extents relative to the pixel edge
\* size, zarr_reshape returns its arrays, the chip array and every plane of the
\* annotation array have x and y extents of at least the pixel edge size, and
\* the annotation array has the chip array's extents.
C11_PaddedExtents ==
    Reshaped =>
        /\ Returned
        /\ stored.xs >= pixelEdge /\ stored.ys >= pixelEdge
        /\ \A s \in DOMAIN storedAnn :
              /\ storedAnn[s].xs >= pixelEdge /\ storedAnn[s].ys >= pixelEdge
              /\ storedAnn[s].xs = stored.xs /\ storedAnn[s].ys = stored.ys

\* C14: with an overlap field and a stratum of index i in the map, the
\* annotation array built by zarr_reshape has one plane per stratum, plane i
\* is the overlap mask and every other plane is all zero over the mask's
\* extents; the array it returns holds these planes unchanged, at the pad's
\* offset when it was padded.  Without the field or without the stratum there
\* is no annotation array.
C14_OneHotAnnotation ==
    Reshaped =>
        IF overlap # NoArray /\ stratumIdx # {}
           THEN /\ Len(ann) = NumStrata
                /\ \A s \in 1..NumStrata :
                      /\ ann[s].xs = overlap.xs /\ ann[s].ys = overlap.ys
                      /\ \A p \in Positions(overlap.xs, overlap.ys) :
                            ann[s].data[p] =
                                IF (s - 1) \in stratumIdx
                                   THEN overlap.data[p] ELSE 0
                /\ Returned =>
                      /\ Len(storedAnn) = NumStrata
                      /\ \A s \in 1..NumStrata :
                          \A p \in Positions(overlap.xs, overlap.ys) :
                            storedAnn[s].data[
                                <<p[1] + (storedAnn[s].xs - overlap.xs) \div 2,
                                  p[2] + (storedAnn[s].ys - overlap.ys) \div 2>>]
                              = ann[s].data[p]
           ELSE ann = <<>> /\ storedAnn = <<>>

\* C14 witness: stratum 1 of 2, a mask with cells inside and outside the
\* region, and an array that was padded
C14_Witness ==
    /\ arrPc = "stored"
    /\ stratumIdx = {1}
    /\ raw.xs = 2 /\ raw.ys = 2 /\ pixelEdge = 4
    /\ overlap # NoArray
    /\ overlap.data[<<1, 0>>] = 1 /\ overlap.data[<<0, 1>>] = 0
    /\ ann[2] = overlap /\ ann[1].data[<<1, 0>>] = 0
    /\ storedAnn[2].xs = 4
    /\ storedAnn[2].data[<<2, 1>>] = 1
    /\ storedAnn[1].data[<<0, 0>>] = NO_DATA_VALUE

-----------------------------------------------------------------------------
(* Properties of the dataset layer (SpecData).                             *)

\* C12: the first element of the item is the normalized tensor when both
\* vectors are non-empty (each value is (value - mean[band]) / std[band] of the
\* tensor made from the stored array), and that tensor itself when not.
C12_NormalizedItem ==
    \A it \in dsItem :
        LET ds == Val(datasets[it.dataset])
            first == it.item[1]
        IN  IF ds.means # <<>> /\ ds.stds # <<>>
               THEN /\ DOMAIN first.data = DOMAIN it.tensor.data
                    /\ \A p \in DOMAIN first.data :
                          RatEq(first.data[p],
                                [num |-> it.tensor.data[p].num
                                           - ds.means[p[4] + 1],
                                 den |-> ds.stds[p[4] + 1]])
               ELSE first = it.tensor

\* the first element's cells are the stored chip's cells from year position
\* lo on, at one x/y offset
YearsFrom(first, lo) ==
    \E x0 \in 0..dsChip.xs, y0 \in 0..dsChip.ys :
        \A p \in DOMAIN first.data :
            first.data[p] = dsChip.data[<<lo + p[1], x0 + p[2], y0 + p[3], p[4]>>]

\* C13: with base_year and back_step configured and the window inside the
\* stored years, the chip of the item has back_step + 1 year entries, from the
\* stored position year - back_step - base_year to the stored position
\* year - base_year; with either of them absent it has every stored year.
C13_YearSlicing ==
    \A it \in dsItem :
        LET ds == Val(datasets[it.dataset])
            first == it.item[1]
        IN  IF ds.base_year # {} /\ ds.back_step # {}
               THEN LET end == sampleYear - Val(ds.base_year)
                        start == end - Val(ds.back_step)
                    IN  (start >= 0 /\ end < dsChip.n0)
                            => /\ first.n0 = Val(ds.back_step) + 1
                               /\ YearsFrom(first, start)
               ELSE first.n0 = dsChip.n0 /\ YearsFrom(first, 0)

\* C13 witness: a window of two years ending at the second stored year, on a
\* chip that needs no crop
C13_Witness ==
    \E it \in dsItem :
        /\ dmCfg.base_year = {FirstYear} /\ dmCfg.back_step = {1}
        /\ sampleYear = FirstYear + 1
        /\ dsChip.xs = 1 /\ dsChip.ys = 1 /\ dmCfg.chip_size = 1
        /\ it.item[1].n0 = 2
        /\ it.item[1].data[<<0, 0, 0, 0>>] = dsChip.data[<<0, 0, 0, 0>>]
        /\ it.item[1].data[<<1, 0, 0, 1>>] = dsChip.data[<<1, 0, 0, 1>>]

\* C18: the prediction dataset has no annotation path and includes names,
\* its other options being the data module's; the prediction loader has
\* drop-last off and the other loaders on; all loaders have the module's batch
\* size and worker count and pin-memory on.
C18_PredictStage ==
    /\ \A ds \in datasets["predict_ds"] :
          /\ ds.anno_data_path = {}
          /\ ds.include_names = TRUE
          /\ ds.sample_path = "predict_sample_path"
          /\ ds.means = dmCfg.means /\ ds.stds = dmCfg.stds
          /\ ds.file_type = dmCfg.file_type
          /\ ds.chip_data_path = dmCfg.chip_data_path
          /\ ds.chip_size = dmCfg.chip_size
          /\ ds.base_year = dmCfg.base_year
          /\ ds.back_step = dmCfg.back_step
    /\ \A l \in loader :
          /\ l.drop_last = (l.kind # "predict")
          /\ l.pin_memory = TRUE
          /\ l.batch_size = dmCfg.batch_size
          /\ l.num_workers = dmCfg.num_workers
          /\ (l.kind = "predict") <=> (l.dataset = "predict_ds")

\* C18 witness: a module configured with an annotation path, after
\* setup("predict"), predict_dataloader() and an item of the prediction
\* dataset, which is the chip and the name
C18_Witness ==
    /\ dmCfg.anno_data_path # {}
    /\ datasets["predict_ds"] # {}
    /\ \E l \in loader : l.kind = "predict" /\ ~l.drop_last
    /\ \E it \in dsItem :
          /\ it.dataset = "predict_ds"
          /\ Len(it.item) = 2 /\ it.item[2] = SquareName

-----------------------------------------------------------------------------
(* Properties of the utility functions (SpecUtil).                         *)

\* C15: the returned geometry is the record's pairs without those that have a
\* NaN component, in the record's order; with a year variable the start date
\* is June 1 of year - back_step and the end date September 1 of year, the
\* start not after the end; without one both dates are absent.
C15_ParseMetaData ==
    \A r \in uRet :
        uFn = "parse_meta_data" =>
            LET g == uArgs.rec.geometry
                year == uArgs.rec.year
                keep == {i \in 1..Len(g) : g[i][1] # "nan" /\ g[i][2] # "nan"}
                Nth(k) == CHOOSE i \in keep :
                              Cardinality({j \in keep : j <= i}) = k
            IN  /\ Len(r.geometry) = Cardinality(keep)
                /\ \A k \in 1..Len(r.geometry) : r.geometry[k] = g[Nth(k)]
                /\ IF year # {}
                      THEN /\ r.start_date =
                                [y |-> Val(year) - uArgs.back_step,
                                 m |-> 6, d |-> 1]
                           /\ r.end_date = [y |-> Val(year), m |-> 9, d |-> 1]
                           /\ \/ r.start_date.y < r.end_date.y
                              \/ /\ r.start_date.y = r.end_date.y
                                 /\ r.start_date.m <= r.end_date.m
                      ELSE r.start_date = NoDate /\ r.end_date = NoDate

\* C15 witness: the middle pair of three has a NaN and is dropped; the dates
\* are two years back
C15_Witness ==
    \E r \in uRet :
        /\ uFn = "parse_meta_data"
        /\ uArgs.rec.geometry = << <<"1", "2">>, <<"nan", "1">>, <<"2", "1">> >>
        /\ r.geometry = << <<"1", "2">>, <<"2", "1">> >>
        /\ uArgs.rec.year = {FirstYear + 1} /\ uArgs.back_step = 2
        /\ r.start_date = [y |-> FirstYear - 1, m |-> 6, d |-> 1]
        /\ r.end_date = [y |-> FirstYear + 1, m |-> 9, d |-> 1]

\* C16: a list of n >= 2 pairs gives the first n-1 pairs as "x{x}y{y}" joined
\* by "_"; exactly one pair gives "x{x}y{y}".
C16_CoordsName ==
    \A r \in uRet :
        uFn = "generate_coords_name" =>
            LET c == uArgs.coords
                n == Len(c)
            IN  IF uArgs.flat
                   THEN ~r.raised /\ r.name = <<"x", c[1], "y", c[2]>>
                   ELSE n >= 2 =>
                        /\ ~r.raised
                        /\ Len(r.name) = 5 * (n - 1) - 1
                        /\ \A k \in 1..(n - 1) :
                              /\ r.name[5 * (k - 1) + 1] = "x"
                              /\ r.name[5 * (k - 1) + 2] = c[k][1]
                              /\ r.name[5 * (k - 1) + 3] = "y"
                              /\ r.name[5 * (k - 1) + 4] = c[k][2]
                              /\ k < n - 1 => r.name[5 * k] = "_"

\* C17: the megabytes are round(pixel_count * band_count * w / 1e6, 2) with
\* w = 2 for int16, 4 for int32 and int, 8 for int64 and double; the pixel
\* count and the band count are returned as they were.
C17_ByteWidths ==
    \A r \in uRet :
        uFn = "estimate_download_size" =>
            LET n == uArgs.pixel_count * uArgs.band_count IN
            /\ uArgs.precision = "int16" => r.mb \in Round2(n * 2)
            /\ uArgs.precision \in {"int32", "int"} => r.mb \in Round2(n * 4)
            /\ uArgs.precision \in {"int64", "double"} => r.mb \in Round2(n * 8)
            /\ r.pixel_count = uArgs.pixel_count
            /\ r.band_count = uArgs.band_count

\* C17 witness: 1,000,000 pixels of one 32-bit band are 4.0 MB
C17_Witness ==
    \E r \in uRet :
        /\ uFn = "estimate_download_size"
        /\ uArgs.pixel_count = 1000000 /\ uArgs.band_count = 1
        /\ uArgs.precision = "int32"
        /\ r.mb = 400 /\ r.pixel_count = 1000000 /\ r.band_count = 1

\* position i of the chip's year axis holds the fields of the i-th smallest
\* year of the raw array
AscendingYears(chip) ==
    \A i \in 1..Len(chip) : \A j \in 1..Len(chip[i]) :
        chip[i][j][1] = FirstYear + i - 1

\* the band axis is in the same order for every year of the chip
SameBandsEveryYear(chip) ==
    \A i, k \in 1..Len(chip) : \A j \in 1..Len(chip[i]) :
        chip[i][j][2] = chip[k][j][2]

\* C28: the chip zarr_reshape returns has its year axis in ascending calendar
\* order and its band axis in one order for every year and every call:
\* reshaping the same raw array twice gives the same array.
C28_AxisOrder ==
    \A r \in uRet :
        uFn = "zarr_reshape" =>
            /\ AscendingYears(r.first) /\ AscendingYears(r.second)
            /\ SameBandsEveryYear(r.first) /\ SameBandsEveryYear(r.second)
            /\ r.first = r.second

\* the code 'EPSG:' followed by the decimal digits of n
EpsgOf(n) == <<"E", "P", "S", "G", ":">> \o FmtInt(n)

\* C29: with the selector 'UTM' the generator reprojects to 'EPSG:' followed
\* by 32600 + z for a latitude above 0 and by 32700 + z otherwise, for every
\* zone z of 1..60; any other selector is used as it is; an absent selector
\* means no reprojection.
C29_UtmCode ==
    \A r \in uRet :
        uFn = "reprojection" =>
            /\ uArgs.reprojection = {UTM} =>
                  /\ r.reprojected
                  /\ r.epsg_code =
                        {EpsgOf((IF uArgs.lat > 0 THEN 32600 ELSE 32700)
                                + uArgs.zone)}
            /\ uArgs.reprojection = {GivenCode} =>
                  (r.reprojected /\ r.epsg_code = {GivenCode})
            /\ uArgs.reprojection = {} =>
                  (~r.reprojected /\ r.epsg_code = {})

\* C30: for every precision of the first band, 'float' included, the first
\* value returned is a figure in megabytes: up to the rounding to two decimals
\* (half a hundredth) it is at most pixel_count * band_count * 8 / 1,000,000.
C30_MegabytesAlways ==
    \A r \in uRet :
        uFn = "estimate_download_size" =>
            r.mb * 10000 <= uArgs.pixel_count * uArgs.band_count * 8 + 5000

====
